---- MODULE Spec2Model ----
(***************************************************************************)
(* A model of spaceMigration.py: the copy of a Confluence space's pages,   *)
(* labels and attachments from a source instance to a destination one.     *)
(*                                                                         *)
(* The remote services are the environment: each request is answered by a  *)
(* sequence of per-attempt outcomes that _req_with_retry folds into one    *)
(* result, and the destination keeps the pages it was sent.                *)
(*                                                                         *)
(* Spec follows run_copy, one request at a time; SpecRetry follows one     *)
(* call of _req_with_retry, one attempt at a time; SpecSort applies        *)
(* sort_pages_parent_first to every short list of pages.                   *)
(***************************************************************************)
EXTENDS Integers, Sequences, FiniteSets, TLC

\* ------------------------------------------------------------------------
\* Configuration (src/spaceMigration.py:29-37)

RETRY_MAX == 6
RETRY_BASE_WAIT == 2
COPY_ATTACHMENTS == TRUE
COPY_LABELS == TRUE
Modes == {"skip", "update", "append-suffix"}

\* Python's None, for identifiers (identifiers are positive numbers here).
None == 0

\* ------------------------------------------------------------------------
\* Bounds of the model

\* How many times run_copy is started against the same source and destination.
MaxRuns == 2
\* How many requests, over all runs, the environment lets end other than in a
\* plain 200 response.
MaxFaults == 1
\* How long a list the sorter is given on its own.
MaxPages == 4

\* ------------------------------------------------------------------------
\* Resilient transport: _req_with_retry

\* The response to one attempt (sess.request): a connection-level fault
\* (requests.RequestException) or a response with a status code, a 429 with
\* or without a Retry-After header; the header's value is a string of decimal
\* digits, here "0" or "12".
Statuses == {200, 404, 429, 500}
RetryAfterHeaders == { <<"0">>, <<"1", "2">> }
Outcomes ==
    {[fault |-> TRUE]}
        \cup {[fault |-> FALSE, status |-> s] : s \in Statuses}
        \cup {[fault |-> FALSE, status |-> 429, retry_after |-> h] :
                   h \in RetryAfterHeaders}

Last(s) == s[Len(s)]

\* float(ra), for a string of decimal digits.
DigitValue(c) ==
    CASE c = "0" -> 0 [] c = "1" -> 1 [] c = "2" -> 2 [] c = "3" -> 3
      [] c = "4" -> 4 [] c = "5" -> 5 [] c = "6" -> 6 [] c = "7" -> 7
      [] c = "8" -> 8 [] c = "9" -> 9

RECURSIVE Float(_)
Float(digits) ==
    IF digits = <<>> THEN 0
    ELSE 10 * Float(SubSeq(digits, 1, Len(digits) - 1)) + DigitValue(Last(digits))

\* A wait that grows by RETRY_BASE_WAIT with every attempt.
BackoffLinear(attempt) == RETRY_BASE_WAIT * attempt

\* RETRY_BASE_WAIT * (2 ** (attempt - 1))
Backoff(attempt) == RETRY_BASE_WAIT * (2 ^ (attempt - 1))

\* wait = float(ra) if ra else RETRY_BASE_WAIT * (2 ** (attempt - 1))
RateLimitWait(r, attempt) ==
    LET ra == IF "retry_after" \in DOMAIN r THEN r.retry_after ELSE <<>>
    IN  IF ra # <<>> THEN Float(ra) ELSE Backoff(attempt)

\* The for loop of _req_with_retry from `attempt` on, over the outcomes of the
\* attempts; slept is the sequence of time.sleep arguments so far. The result
\* says whether the call raised, the response it returned, the number of
\* requests issued and the waits.
RECURSIVE ReqLoop(_, _, _)
ReqLoop(outcomes, attempt, slept) ==
    IF attempt > RETRY_MAX
    THEN \* line 74: the loop ran out; r is the last response
         [raised |-> FALSE, r |-> outcomes[RETRY_MAX],
          attempts |-> RETRY_MAX, slept |-> slept]
    ELSE LET r == outcomes[attempt] IN
         IF r.fault
         THEN IF attempt >= RETRY_MAX
              THEN [raised |-> TRUE, r |-> r, attempts |-> attempt, slept |-> slept]
              ELSE ReqLoop(outcomes, attempt + 1, Append(slept, Backoff(attempt)))
         ELSE IF r.status = 429
         THEN ReqLoop(outcomes, attempt + 1,
                      Append(slept, RateLimitWait(r, attempt)))
         ELSE IF 500 <= r.status /\ r.status < 600
         THEN IF attempt >= RETRY_MAX
              THEN [raised |-> FALSE, r |-> r, attempts |-> attempt, slept |-> slept]
              ELSE ReqLoop(outcomes, attempt + 1, Append(slept, Backoff(attempt)))
         ELSE [raised |-> FALSE, r |-> r, attempts |-> attempt, slept |-> slept]

ReqWithRetry(outcomes) == ReqLoop(outcomes, 1, <<>>)

\* What a caller of _req_with_retry sees: an exception, or a status code.
CallResult(res) ==
    IF res.raised THEN [raised |-> TRUE, status |-> None]
    ELSE [raised |-> FALSE, status |-> res.r.status]

\* Every result a call of _req_with_retry can have, over all sequences of
\* per-attempt outcomes.
AttemptSeqs == [1..RETRY_MAX -> Outcomes]
RequestResults == {CallResult(ReqWithRetry(s)) : s \in AttemptSeqs}

Ok200 == [raised |-> FALSE, status |-> 200]

\* raise_for_status raising on a 5xx status only.
RaisesForServerErrorOnly(status) == 500 <= status /\ status < 600

\* r.raise_for_status(): raises on a 4xx or 5xx status.
RaisesForStatus(status) == 400 <= status /\ status < 600

\* ------------------------------------------------------------------------
\* The source space (the environment of fetch_all_pages_from_space)

\* A page as the source lists it: id, title, body.storage.value and the
\* ancestors (root first, immediate parent last); the body or the ancestors
\* field may be missing.
\*   A root; B under A; C under B with B's title and no body; O under a page
\*   that is not in the space; R, a root listed without an ancestors field;
\*   X whose parent Y has a longer ancestor chain than X itself.
SourceListings ==
    LET A == [id |-> 1, title |-> "a", body |-> "x", ancestors |-> <<>>]
        B == [id |-> 2, title |-> "b", body |-> "y", ancestors |-> <<1>>]
        C == [id |-> 3, title |-> "b", ancestors |-> <<1, 2>>]
        O == [id |-> 4, title |-> "o", body |-> "z", ancestors |-> <<9>>]
        R == [id |-> 5, title |-> "r", body |-> ""]
        X == [id |-> 6, title |-> "c", body |-> "x", ancestors |-> <<7>>]
        Y == [id |-> 7, title |-> "d", body |-> "y", ancestors |-> <<1, 6>>]
    IN  { <<>>,
          <<A, B, C>>,
          <<C, A, B>>,
          <<B, R, A>>,
          <<A, O>>,
          <<X, Y, A>> }

\* GET /content/{id}/label on the source: the labels of a page, some without a
\* prefix, some without a name.
SrcLabels(src_id) ==
    IF src_id = 1
    THEN << [prefix |-> "my", name |-> "l1"], [name |-> "l2"], [prefix |-> "team"] >>
    ELSE << >>

\* GET /content/{id}/child/attachment on the source: the attachments of a
\* page, each with a title and a download link, either of which may be missing.
SrcAttachments(src_id) ==
    IF src_id = 1
    THEN << [title |-> "f1", download |-> "/d1"],
            [title |-> "f2", download |-> "/d2"],
            [download |-> "/d3"] >>
    ELSE IF src_id = 2
    THEN << [title |-> "g1"] >>
    ELSE << >>

\* ------------------------------------------------------------------------
\* Python values

\* None where a dict is expected (a page, a match): the empty record.
NoPage == << >>
IsNone(d) == DOMAIN d = {}

\* d.get(key, default)
Get(d, key, default) == IF key \in DOMAIN d THEN d[key] ELSE default

\* JSON null where a list of ids is expected: the one list that holds None.
Null == << None >>

\* v or []
OrEmpty(v) == IF v = Null THEN << >> ELSE v

\* ------------------------------------------------------------------------
\* Hierarchy sorter: sort_pages_parent_first

\* The length of the ancestors field as it is (depth without its "or []").
DepthOfField(p) == Len(Get(p, "ancestors", <<>>))

\* len(p.get("ancestors", []) or [])
depth(p) == Len(OrEmpty(Get(p, "ancestors", <<>>)))

DepthIs(d, p) == depth(p) = d

RECURSIVE MaxDepthOf(_)
MaxDepthOf(pages) ==
    IF pages = <<>> THEN 0
    ELSE LET m == MaxDepthOf(Tail(pages)) IN
         IF depth(Head(pages)) > m THEN depth(Head(pages)) ELSE m

\* sorted(pages, key=depth): Python's sort is stable, so the result is the
\* pages of depth 0 in input order, then those of depth 1, and so on.
RECURSIVE SortFrom(_, _)
SortFrom(pages, d) ==
    IF d > MaxDepthOf(pages) THEN <<>>
    ELSE SelectSeq(pages, LAMBDA p : DepthIs(d, p)) \o SortFrom(pages, d + 1)

\* The same list, not sorted (a mutation of sort_pages_parent_first).
SortPagesUnsorted(pages) == pages

sort_pages_parent_first(pages) == SortFrom(pages, 0)

\* ------------------------------------------------------------------------
\* The destination service

\* A destination page: [id, title, body, ancestors (ids, root first), version,
\* labels, attachments].
NewPage(id, title, body, ancestors) ==
    [id |-> id, title |-> title, body |-> body, ancestors |-> ancestors,
     version |-> 1, labels |-> {}, attachments |-> {}]

\* The destination as run_copy may find it: empty, or holding a root page
\* titled "a" that was edited once.
DestSpaces ==
    { <<>>,
      << [id |-> 101, title |-> "a", body |-> "old", ancestors |-> <<>>,
          version |-> 2, labels |-> {}, attachments |-> {}] >> }

PageById(pgs, id) == CHOOSE p \in {pgs[i] : i \in 1..Len(pgs)} : p.id = id

\* One result of the title search with expand=ancestors; the service may or
\* may not add the version, which the request does not ask for.
SearchItem(p, with_version) ==
    IF with_version
    THEN [id |-> p.id, title |-> p.title, ancestors |-> p.ancestors,
          version |-> [number |-> p.version]]
    ELSE [id |-> p.id, title |-> p.title, ancestors |-> p.ancestors]

TitleIs(t, p) == p.title = t

\* GET /content?type=page&spaceKey=K&title=T&expand=ancestors
ServerSearch(pgs, t, with_version) ==
    LET hits == SelectSeq(pgs, LAMBDA p : TitleIs(t, p))
    IN  [i \in 1..Len(hits) |-> SearchItem(hits[i], with_version)]

\* POST /content: the new page gets a fresh id, version 1 and, under a parent,
\* the parent's ancestors followed by the parent.
ServerCreate(pgs, body) ==
    LET ancs == IF "ancestors" \in DOMAIN body
                THEN LET parent == PageById(pgs, body.ancestors[1])
                     IN  Append(parent.ancestors, parent.id)
                ELSE <<>>
    IN  Append(pgs, NewPage(101 + Len(pgs), body.title, body.body, ancs))

\* PUT /content/{id} is refused when the version sent is not the current one
\* plus one.
StaleVersion(pgs, body) == body.version # PageById(pgs, body.id).version + 1

\* PUT /content/{id}: title, body and version are replaced; a request without
\* ancestors leaves the page where it is.
ServerUpdate(pgs, body) ==
    [i \in 1..Len(pgs) |->
        IF pgs[i].id = body.id
        THEN [pgs[i] EXCEPT !.title = body.title, !.body = body.body,
                            !.version = body.version]
        ELSE pgs[i]]

\* POST /content/{id}/label
ServerAddLabels(pgs, id, payload) ==
    [i \in 1..Len(pgs) |->
        IF pgs[i].id = id
        THEN [pgs[i] EXCEPT !.labels = @ \cup {payload[j] : j \in 1..Len(payload)}]
        ELSE pgs[i]]

\* POST /content/{id}/child/attachment
ServerAddAttachment(pgs, id, filename, content) ==
    [i \in 1..Len(pgs) |->
        IF pgs[i].id = id
        THEN [pgs[i] EXCEPT !.attachments =
                  @ \cup {[filename |-> filename, content |-> content]}]
        ELSE pgs[i]]

\* ------------------------------------------------------------------------
\* Identity resolver: find_dest_page_by_title

\* direct_parent = ancs[-1]["id"] if ancs else None
DirectParent(p) ==
    LET ancs == OrEmpty(Get(p, "ancestors", <<>>))
    IN  IF ancs # <<>> THEN Last(ancs) ELSE None

\* The for loop over data["results"]: the first result whose direct parent is
\* parent_id.
RECURSIVE FirstUnderParent(_, _)
FirstUnderParent(results, parent_id) ==
    IF results = <<>> THEN NoPage
    ELSE IF parent_id = DirectParent(Head(results)) THEN Head(results)
    ELSE FirstUnderParent(Tail(results), parent_id)

\* The first result whatever its parent (find_dest_page_by_title without the
\* comparison of parents).
FirstByTitleOnly(status, results, parent_id) ==
    IF status # 200 THEN NoPage
    ELSE IF results = <<>> THEN NoPage ELSE Head(results)

\* The search of the results whatever the status of the response
\* (find_dest_page_by_title without the check of r.status_code).
FindIgnoringStatus(status, results, parent_id) ==
    FirstUnderParent(results, parent_id)

find_dest_page_by_title(status, results, parent_id) ==
    IF status # 200 THEN NoPage
    ELSE FirstUnderParent(results, parent_id)

\* ------------------------------------------------------------------------
\* The two writes: create_page and update_page

\* The JSON body without ancestors, whatever the parent_id (create_page
\* without its lines 158-159).
CreateBodyWithoutParent(t, storage_value, parent_id) ==
    [type |-> "page", title |-> t, body |-> storage_value]

\* The JSON body of create_page; ancestors only with a parent_id.
CreateBody(t, storage_value, parent_id) ==
    IF parent_id # None
    THEN [type |-> "page", title |-> t, body |-> storage_value,
          ancestors |-> <<parent_id>>]
    ELSE [type |-> "page", title |-> t, body |-> storage_value]

\* version_num = page.get("version", {}).get("number", 1)
VersionNum(page) == Get(Get(page, "version", << >>), "number", 1)

\* The JSON body of update_page.
UpdateBody(page, new_storage_value) ==
    [id |-> page.id, type |-> "page", title |-> page.title,
     body |-> new_storage_value, version |-> VersionNum(page) + 1]

\* ------------------------------------------------------------------------
\* Labels: the payload of copy_labels

HasName(l) == "name" \in DOMAIN l

\* [{"prefix": l.get("prefix", "global"), "name": l["name"]}
\*  for l in labels if "name" in l]
LabelPayload(labels) ==
    LET named == SelectSeq(labels, HasName)
    IN  [i \in 1..Len(named) |->
            [prefix |-> Get(named[i], "prefix", "global"), name |-> named[i].name]]

\* ------------------------------------------------------------------------
\* run_copy

VARIABLES
    mode,           \* ON_TITLE_CONFLICT
    src,            \* the pages of the source space, in the order it lists them
    dst0,           \* the destination before the first run
    dst,            \* the pages of the destination space, oldest first
    run,            \* how many runs of run_copy have started
    pc,             \* where the current run is
    faults,         \* requests that ended other than in a plain 200 so far
    pages,          \* pages: the pages fetched so far, then the sorted list
    id_map,         \* id_map: source page id -> destination page id
    idx,            \* the position of p in pages
    title,          \* title
    parent_dst_id,  \* parent_dst_id
    existing,       \* existing (NoPage for None)
    lookup,         \* the last call of find_dest_page_by_title
    lastReq,        \* the last create or update request sent
    hist,           \* per source id of this run: the status of the lookup,
                    \* the branch taken, the calls of copy_labels and
                    \* copy_attachments, the downloads answered and the
                    \* uploads sent, the parent_dst_id of the lookup and
                    \* whether the page named a parent that id_map lacked
    attPending,     \* copy_attachments: the listed attachments not yet handled
    attRest,        \* the attachments the source has still to list
    failedAt,       \* the request whose failure ended the run
    dstBefore,      \* dst when the current run started
    prevMap,        \* id_map at the end of the previous run
    prevHist,       \* hist at the end of the previous run
    prevEnd,        \* how the previous run ended
    \* one call of _req_with_retry, attempt by attempt
    rqPc,           \* where the call is: "idle", "attempt", "returned", "raised"
    rqCaller,       \* the function that made the call
    rqAttempt,      \* attempt
    rqResp,         \* r (NoPage while unassigned)
    rqSeen,         \* what sess.request did on each attempt so far
    rqSlept,        \* the arguments of time.sleep so far
    rqOutcome       \* what the caller made of the call ("" until it has)

vars == <<mode, src, dst0, dst, run, pc, faults, pages, id_map, idx, title,
          parent_dst_id, existing, lookup, lastReq, hist, attPending, attRest,
          failedAt, dstBefore, prevMap, prevHist, prevEnd,
          rqPc, rqCaller, rqAttempt, rqResp, rqSeen, rqSlept, rqOutcome>>

retry == <<rqPc, rqCaller, rqAttempt, rqResp, rqSeen, rqSlept, rqOutcome>>
config == <<mode, src, dst0>>
earlier == <<dstBefore, prevMap, prevHist, prevEnd>>
locals == <<title, parent_dst_id, existing, lookup>>
attachments == <<attPending, attRest>>

\* d[key] = value
Put(d, key, value) ==
    [k \in DOMAIN d \cup {key} |-> IF k = key THEN value ELSE d[k]]

\* storage = p.get("body", {}).get("storage", {}).get("value", "") or ""
Storage(p) == Get(p, "body", "")

\* parent_src_id = ancestors[-1]["id"] if ancestors else None
ParentSrcId(p) ==
    LET ancestors == OrEmpty(Get(p, "ancestors", <<>>))
    IN  IF ancestors # <<>> THEN Last(ancestors) ELSE None

\* No parent is ever resolved (run_copy without its line 260).
ParentNeverResolved(map, p) == None

\* A page whose parent is not in the map is put under a page that is.
ParentOrAnyMapped(map, p) ==
    IF ParentSrcId(p) = None THEN None
    ELSE IF ParentSrcId(p) \in DOMAIN map THEN map[ParentSrcId(p)]
    ELSE IF DOMAIN map = {} THEN None
    ELSE map[CHOOSE k \in DOMAIN map : TRUE]

\* parent_dst_id = id_map.get(parent_src_id) if parent_src_id else None
ParentDstId(map, p) ==
    IF ParentSrcId(p) # None THEN Get(map, ParentSrcId(p), None) ELSE None

\* The policy with "skip" never recognised: a match under mode skip falls
\* through to the last branch.
BranchSkipUnrecognised(m, match) ==
    IF ~IsNone(match)
    THEN IF m = "update" THEN "update" ELSE "suffix"
    ELSE "create"

\* The policy with "update" never recognised: a match under mode update falls
\* through to the last branch.
BranchUpdateUnrecognised(m, match) ==
    IF ~IsNone(match)
    THEN IF m = "skip" THEN "skip" ELSE "suffix"
    ELSE "create"

\* The branch of the conflict policy taken with `match` as existing.
Branch(m, match) ==
    IF ~IsNone(match)
    THEN IF m = "skip" THEN "skip"
         ELSE IF m = "update" THEN "update"
         ELSE "suffix"
    ELSE "create"

\* The title a create request is sent with.
TitleToCreate(branch, t) == IF branch = "suffix" THEN t \o " (copy)" ELSE t

\* The environment answers a request; a result other than a plain 200 is
\* counted against MaxFaults.
Answers(res) ==
    /\ res = Ok200 \/ faults < MaxFaults
    /\ faults' = IF res = Ok200 THEN faults ELSE faults + 1

\* The sizes of the next page of a listing with n items left.
ChunkSizes(n) == IF n = 0 THEN {0} ELSE 1..n

\* Nothing has run yet.
NotStarted ==
    /\ dst = dst0
    /\ run = 0
    /\ pc = "idle"
    /\ faults = 0
    /\ pages = <<>>
    /\ id_map = <<>>
    /\ idx = 0
    /\ title = ""
    /\ parent_dst_id = None
    /\ existing = NoPage
    /\ lookup = NoPage
    /\ lastReq = NoPage
    /\ hist = <<>>
    /\ attPending = <<>>
    /\ attRest = <<>>
    /\ failedAt = ""
    /\ dstBefore = dst0
    /\ prevMap = <<>>
    /\ prevHist = <<>>
    /\ prevEnd = "idle"
    /\ rqPc = "idle"
    /\ rqCaller = ""
    /\ rqAttempt = 0
    /\ rqResp = NoPage
    /\ rqSeen = <<>>
    /\ rqSlept = <<>>
    /\ rqOutcome = ""

Init ==
    /\ mode \in Modes
    /\ src \in SourceListings
    /\ dst0 \in DestSpaces
    /\ NotStarted

\* The exception is swallowed where it arises and the request is made again.
RaiseSwallowed(site) ==
    /\ pc' = pc
    /\ failedAt' = site

\* An exception leaves run_copy.
Raise(site) ==
    /\ pc' = "failed"
    /\ failedAt' = site

\* The for loop of run_copy goes on to the next page, or ends.
NextPage ==
    IF idx < Len(pages)
    THEN pc' = "item" /\ idx' = idx + 1
    ELSE pc' = "done" /\ idx' = idx

\* run_copy is started (again).
StartRun ==
    /\ pc \in {"idle", "done", "failed"}
    /\ run < MaxRuns
    /\ run' = run + 1
    /\ pc' = "fetch"
    /\ pages' = <<>>
    /\ id_map' = <<>>
    /\ idx' = 0
    /\ title' = ""
    /\ parent_dst_id' = None
    /\ existing' = NoPage
    /\ lookup' = NoPage
    /\ lastReq' = NoPage
    /\ hist' = <<>>
    /\ attPending' = <<>>
    /\ attRest' = <<>>
    /\ failedAt' = ""
    /\ dstBefore' = dst
    /\ prevMap' = id_map
    /\ prevHist' = hist
    /\ prevEnd' = pc
    /\ UNCHANGED <<retry, config, dst, faults>>

\* One page of the source listing (an iteration of _paged_get under
\* fetch_all_pages_from_space) and, after the last one, the sort.
FetchPage ==
    /\ pc = "fetch"
    /\ \E res \in RequestResults :
        /\ Answers(res)
        /\ IF res.raised \/ RaisesForStatus(res.status)
           THEN /\ Raise("fetch")
                /\ UNCHANGED <<pages, idx>>
           ELSE \E k \in ChunkSizes(Len(src) - Len(pages)) :
                LET got == pages \o SubSeq(src, Len(pages) + 1, Len(pages) + k)
                IN  /\ failedAt' = failedAt
                    /\ IF Len(got) < Len(src)
                       THEN pc' = "fetch" /\ pages' = got /\ idx' = idx
                       ELSE IF got = <<>>
                       THEN pc' = "done" /\ pages' = got /\ idx' = idx
                       ELSE /\ pc' = "item"
                            /\ pages' = sort_pages_parent_first(got)
                            /\ idx' = 1
    /\ UNCHANGED <<retry, config, earlier, locals, attachments, dst, run, id_map,
                   lastReq, hist>>

\* The head of the loop body for p = pages[idx]: the parent is resolved, the
\* destination is searched and the conflict policy picks its branch; the skip
\* branch records the match and goes on to the next page.
LookupExisting ==
    /\ pc = "item"
    /\ LET p == pages[idx]
           pdst == ParentDstId(id_map, p)
       IN  \E res \in RequestResults, with_version \in BOOLEAN :
            /\ Answers(res)
            /\ parent_dst_id' = pdst
            /\ IF res.raised
               THEN /\ Raise("find")
                    /\ title' = p.title
                    /\ UNCHANGED <<existing, lookup, id_map, hist, idx>>
               ELSE LET results == ServerSearch(dst, p.title, with_version)
                        match == find_dest_page_by_title(res.status, results, pdst)
                        branch == Branch(mode, match)
                    IN  /\ existing' = match
                        /\ lookup' = [title |-> p.title, parent_id |-> pdst,
                                      status |-> res.status]
                        /\ failedAt' = failedAt
                        /\ title' = TitleToCreate(branch, p.title)
                        /\ hist' = Put(hist, p.id,
                                       [lookup |-> res.status, branch |-> branch,
                                        labels |-> 0, atts |-> 0, log |-> <<>>,
                                        parent |-> pdst,
                                        orphan |-> ParentSrcId(p) # None
                                            /\ ParentSrcId(p) \notin DOMAIN id_map])
                        /\ IF branch = "skip"
                           THEN /\ id_map' = Put(id_map, p.id, match.id)
                                /\ NextPage
                           ELSE /\ pc' = IF branch = "update" THEN "update" ELSE "create"
                                /\ UNCHANGED <<id_map, idx>>
    /\ UNCHANGED <<retry, config, earlier, attachments, dst, run, pages, lastReq>>

\* After the write: dst_id = id_map[src_id], then copy_labels is called.
CallCopyLabels(src_id) ==
    IF COPY_LABELS
    THEN /\ pc' = "labels_get"
         /\ hist' = [hist EXCEPT ![src_id].labels = @ + 1]
         /\ UNCHANGED <<idx, attachments>>
    ELSE IF COPY_ATTACHMENTS
    THEN /\ pc' = "att_list"
         /\ hist' = [hist EXCEPT ![src_id].atts = @ + 1]
         /\ attPending' = <<>>
         /\ attRest' = SrcAttachments(src_id)
         /\ idx' = idx
    ELSE /\ NextPage
         /\ UNCHANGED <<hist, attachments>>

\* create_page, for a page without a match or with the suffixed title.
CreatePage ==
    /\ pc = "create"
    /\ LET p == pages[idx]
           body == CreateBody(title, Storage(p), parent_dst_id)
       IN  /\ lastReq' = [method |-> "POST", body |-> body]
           /\ \E res \in RequestResults :
                /\ Answers(res)
                /\ IF res.raised \/ RaisesForStatus(res.status)
                   THEN /\ Raise("create")
                        /\ UNCHANGED <<dst, id_map, hist, idx, attachments>>
                   ELSE LET created == ServerCreate(dst, body)
                        IN  /\ dst' = created
                            /\ id_map' = Put(id_map, p.id, Last(created).id)
                            /\ failedAt' = failedAt
                            /\ CallCopyLabels(p.id)
    /\ UNCHANGED <<retry, config, earlier, locals, run, pages>>

\* update_page, for a matched page with mode update.
UpdatePage ==
    /\ pc = "update"
    /\ LET p == pages[idx]
           body == UpdateBody(existing, Storage(p))
       IN  /\ lastReq' = [method |-> "PUT", body |-> body]
           /\ \E res \in RequestResults :
                /\ Answers(res)
                /\ LET status == IF res = Ok200 /\ StaleVersion(dst, body)
                                 THEN 409 ELSE res.status
                   IN  IF res.raised \/ RaisesForStatus(status)
                       THEN /\ Raise("update")
                            /\ UNCHANGED <<dst, id_map, hist, idx, attachments>>
                       ELSE /\ dst' = ServerUpdate(dst, body)
                            /\ id_map' = Put(id_map, p.id, body.id)
                            /\ failedAt' = failedAt
                            /\ CallCopyLabels(p.id)
    /\ UNCHANGED <<retry, config, earlier, locals, run, pages>>

\* copy_labels has returned and copy_attachments is not called (run_copy
\* without its lines 286-287).
SkipCopyAttachments(src_id) ==
    /\ NextPage
    /\ UNCHANGED <<hist, attachments>>

\* copy_labels has returned: copy_attachments is called.
CallCopyAttachments(src_id) ==
    IF COPY_ATTACHMENTS
    THEN /\ pc' = "att_list"
         /\ hist' = [hist EXCEPT ![src_id].atts = @ + 1]
         /\ attPending' = <<>>
         /\ attRest' = SrcAttachments(src_id)
         /\ idx' = idx
    ELSE /\ NextPage
         /\ UNCHANGED <<hist, attachments>>

\* copy_labels up to its GET of the source labels.
CopyLabelsGet ==
    /\ pc = "labels_get"
    /\ LET src_id == pages[idx].id
       IN  \E res \in RequestResults :
            /\ Answers(res)
            /\ IF res.raised
               THEN /\ Raise("labels_get")
                    /\ UNCHANGED <<hist, idx, attachments>>
               ELSE /\ failedAt' = failedAt
                    /\ IF res.status # 200 \/ SrcLabels(src_id) = <<>>
                       THEN CallCopyAttachments(src_id)
                       ELSE /\ pc' = "labels_post"
                            /\ UNCHANGED <<hist, idx, attachments>>
    /\ UNCHANGED <<retry, config, earlier, locals, dst, run, pages, id_map, lastReq>>

\* copy_labels from its POST to the destination on; the response is ignored.
CopyLabelsPost ==
    /\ pc = "labels_post"
    /\ LET src_id == pages[idx].id
           payload == LabelPayload(SrcLabels(src_id))
       IN  \E res \in RequestResults :
            /\ Answers(res)
            /\ IF res.raised
               THEN /\ Raise("labels_post")
                    /\ UNCHANGED <<dst, hist, idx, attachments>>
               ELSE /\ failedAt' = failedAt
                    /\ dst' = IF res.status = 200
                              THEN ServerAddLabels(dst, id_map[src_id], payload)
                              ELSE dst
                    /\ CallCopyAttachments(src_id)
    /\ UNCHANGED <<retry, config, earlier, locals, run, pages, id_map, lastReq>>

HasDownload(att) == "download" \in DOMAIN att

\* if not dl_rel: continue
RECURSIVE SkipNoLink(_)
SkipNoLink(atts) ==
    IF atts = <<>> THEN <<>>
    ELSE IF HasDownload(Head(atts)) THEN atts
    ELSE SkipNoLink(Tail(atts))

\* The for loop of copy_attachments goes on with the listed attachments
\* `pending` and the unlisted ones `rest`: to the next download, to the next
\* page of the listing, or out of copy_attachments.
ContinueAttachments(pending, rest) ==
    LET todo == SkipNoLink(pending)
    IN  IF todo # <<>>
        THEN pc' = "att_dl" /\ attPending' = todo /\ attRest' = rest /\ idx' = idx
        ELSE IF rest # <<>>
        THEN pc' = "att_list" /\ attPending' = <<>> /\ attRest' = rest /\ idx' = idx
        ELSE NextPage /\ attPending' = <<>> /\ attRest' = <<>>

\* One page of the attachment listing (an iteration of _paged_get under
\* copy_attachments).
ListAttachments ==
    /\ pc = "att_list"
    /\ \E res \in RequestResults :
        /\ Answers(res)
        /\ IF res.raised \/ RaisesForStatus(res.status)
           THEN /\ Raise("att_list")
                /\ UNCHANGED <<idx, attachments>>
           ELSE /\ failedAt' = failedAt
                /\ \E k \in ChunkSizes(Len(attRest)) :
                    ContinueAttachments(SubSeq(attRest, 1, k),
                                        SubSeq(attRest, k + 1, Len(attRest)))
    /\ UNCHANGED <<retry, config, earlier, locals, dst, run, pages, id_map, lastReq, hist>>

\* The download of the attachment at hand has been answered.
Downloaded(att, status) ==
    hist' = [hist EXCEPT ![pages[idx].id].log =
                Append(@, [att |-> att, downloaded |-> status = 200,
                           sent |-> "", stored |-> FALSE])]

\* The download of the attachment at hand, which ends copy_attachments when
\* the response is not a 200 (a return in the place of the continue of line
\* 226).
DownloadOrGiveUp ==
    /\ pc = "att_dl"
    /\ \E res \in RequestResults :
        /\ Answers(res)
        /\ IF res.raised
           THEN /\ Raise("att_dl")
                /\ UNCHANGED <<hist, idx, attachments>>
           ELSE /\ failedAt' = failedAt
                /\ Downloaded(Head(attPending), res.status)
                /\ IF res.status # 200
                   THEN NextPage /\ attPending' = <<>> /\ attRest' = <<>>
                   ELSE pc' = "att_up" /\ UNCHANGED <<idx, attachments>>
    /\ UNCHANGED <<retry, config, earlier, locals, dst, run, pages, id_map, lastReq>>

\* The download of the attachment at hand.
DownloadAttachment ==
    /\ pc = "att_dl"
    /\ \E res \in RequestResults :
        /\ Answers(res)
        /\ IF res.raised
           THEN /\ Raise("att_dl")
                /\ UNCHANGED <<hist, idx, attachments>>
           ELSE /\ failedAt' = failedAt
                /\ Downloaded(Head(attPending), res.status)
                /\ IF res.status # 200
                   THEN ContinueAttachments(Tail(attPending), attRest)
                   ELSE pc' = "att_up" /\ UNCHANGED <<idx, attachments>>
    /\ UNCHANGED <<retry, config, earlier, locals, dst, run, pages, id_map, lastReq>>

\* filename = att.get("title", "attachment.bin")
Filename(att) == Get(att, "title", "attachment.bin")

\* The upload of the attachment just downloaded; the response is ignored.
UploadAttachment ==
    /\ pc = "att_up"
    /\ LET att == Head(attPending)
           dst_id == id_map[pages[idx].id]
       IN  \E res \in RequestResults :
            /\ Answers(res)
            /\ IF res.raised
               THEN /\ Raise("att_up")
                    /\ UNCHANGED <<dst, hist, idx, attachments>>
               ELSE /\ failedAt' = failedAt
                    /\ hist' = [hist EXCEPT ![pages[idx].id].log =
                                    [@ EXCEPT ![Len(@)].sent = Filename(att),
                                              ![Len(@)].stored = (res.status = 200)]]
                    /\ dst' = IF res.status = 200
                              THEN ServerAddAttachment(dst, dst_id, Filename(att),
                                                       att.download)
                              ELSE dst
                    /\ ContinueAttachments(Tail(attPending), attRest)
    /\ UNCHANGED <<retry, config, earlier, locals, run, pages, id_map, lastReq>>

Next ==
    \/ StartRun
    \/ FetchPage
    \/ LookupExisting
    \/ CreatePage
    \/ UpdatePage
    \/ CopyLabelsGet
    \/ CopyLabelsPost
    \/ ListAttachments
    \/ DownloadAttachment
    \/ UploadAttachment

Spec == Init /\ [][Next]_vars

\* ------------------------------------------------------------------------
\* One call of _req_with_retry, attempt by attempt, and what its caller makes
\* of it

migration == <<config, earlier, locals, attachments, dst, run, pc, faults,
               pages, id_map, idx, lastReq, hist, failedAt>>

\* The callers of _req_with_retry that are followed here.
Callers == {"find_dest_page_by_title", "create_page", "update_page"}

\* 500 <= r.status_code < 600
IsServerFault(status) == 500 <= status /\ status < 600

\* Every attempt taken for the last one.
LastAttemptAlways(a) == TRUE

\* No attempt taken for the last one.
LastAttemptNever(a) == FALSE

\* if attempt >= RETRY_MAX
LastAttempt(a) == a >= RETRY_MAX

\* range(1, RETRY_MAX + 2) has a value after a.
HasNextAttemptOneMore(a) == a < RETRY_MAX + 1

\* range(1, RETRY_MAX + 1) has a value after a.
HasNextAttempt(a) == a < RETRY_MAX

\* A caller calls _req_with_retry.
CallRequest ==
    /\ rqPc = "idle" \/ rqOutcome # ""
    /\ \E c \in Callers : rqCaller' = c
    /\ rqPc' = "attempt"
    /\ rqAttempt' = 1
    /\ rqResp' = NoPage
    /\ rqSeen' = <<>>
    /\ rqSlept' = <<>>
    /\ rqOutcome' = ""
    /\ UNCHANGED migration

\* raise (line 55)
RaiseFault ==
    /\ rqPc' = "raised"
    /\ UNCHANGED <<rqAttempt, rqSlept>>

\* return r (lines 67, 72, 74)
ReturnResponse ==
    /\ rqPc' = "returned"
    /\ UNCHANGED <<rqAttempt, rqSlept>>

\* time.sleep(wait); continue: the next iteration of the for loop or, after
\* the last one, the return r that follows the loop.
SleepAndContinue(wait) ==
    /\ rqSlept' = Append(rqSlept, wait)
    /\ IF HasNextAttempt(rqAttempt)
       THEN rqPc' = "attempt" /\ rqAttempt' = rqAttempt + 1
       ELSE rqPc' = "returned" /\ rqAttempt' = rqAttempt

\* One iteration of the for loop: sess.request raises or assigns r, and the
\* outcome is dealt with.
Attempt ==
    /\ rqPc = "attempt"
    /\ \E o \in Outcomes :
        /\ rqSeen' = Append(rqSeen, o)
        /\ IF o.fault
           THEN /\ rqResp' = rqResp
                /\ IF LastAttempt(rqAttempt)
                   THEN RaiseFault
                   ELSE SleepAndContinue(Backoff(rqAttempt))
           ELSE /\ rqResp' = o
                /\ IF o.status = 429
                   THEN SleepAndContinue(RateLimitWait(o, rqAttempt))
                   ELSE IF IsServerFault(o.status)
                   THEN IF LastAttempt(rqAttempt)
                        THEN ReturnResponse
                        ELSE SleepAndContinue(Backoff(rqAttempt))
                   ELSE ReturnResponse
    /\ UNCHANGED <<migration, rqCaller, rqOutcome>>

\* What the caller makes of the response: create_page and update_page call
\* raise_for_status; find_dest_page_by_title searches the results (here those
\* for the title "a" under no parent) unless the status is not 200.
CallerOutcome(caller, status, results) ==
    IF caller = "find_dest_page_by_title"
    THEN IF IsNone(find_dest_page_by_title(status, results, None))
         THEN "no match" ELSE "match"
    ELSE IF RaisesForStatus(status) THEN "fatal" ELSE "written"

\* The call is over: the exception goes up through the caller, or the caller
\* deals with the response.
CallerHandles ==
    /\ rqPc \in {"returned", "raised"}
    /\ rqOutcome = ""
    /\ rqOutcome' = IF rqPc = "raised" THEN "fatal"
                    ELSE CallerOutcome(rqCaller, rqResp.status,
                                       ServerSearch(dst, "a", TRUE))
    /\ UNCHANGED <<migration, rqPc, rqCaller, rqAttempt, rqResp, rqSeen, rqSlept>>

\* The calls are made against a destination that holds a root page titled "a".
InitRetry ==
    /\ Init
    /\ mode = "skip"
    /\ src = <<>>
    /\ dst0 # <<>>

NextRetry ==
    \/ CallRequest
    \/ Attempt
    \/ CallerHandles

\* Every attempt ends: the request has a timeout and the sleeps are finite.
SpecRetry == InitRetry /\ [][NextRetry]_vars /\ WF_vars(Attempt)

\* ------------------------------------------------------------------------
\* sort_pages_parent_first on its own, over every list of up to MaxPages pages

\* What the ancestors field of a listed page may be: missing, null, empty, or
\* a chain of one or two ids.
AncestorsFields == {"missing", "null", "empty", "one", "two"}

\* The page with the given id and ancestors field.
PageWith(id, field) ==
    CASE field = "missing" -> [id |-> id]
      [] field = "null"    -> [id |-> id, ancestors |-> Null]
      [] field = "empty"   -> [id |-> id, ancestors |-> << >>]
      [] field = "one"     -> [id |-> id, ancestors |-> << 8 >>]
      [] field = "two"     -> [id |-> id, ancestors |-> << 8, 9 >>]

\* The lists of n pages, the page at position i having the id i.
PageLists(n) ==
    {[i \in 1..n |-> PageWith(i, fields[i])] : fields \in [1..n -> AncestorsFields]}

SortInputs == UNION {PageLists(n) : n \in 0..MaxPages}

InitSort ==
    /\ mode = "skip"
    /\ src \in SortInputs
    /\ dst0 = <<>>
    /\ NotStarted

\* pages = sort_pages_parent_first(pages)
SortPages ==
    /\ pc = "idle"
    /\ pages' = sort_pages_parent_first(src)
    /\ pc' = "sorted"
    /\ UNCHANGED <<retry, config, earlier, locals, attachments, dst, run, faults,
                   id_map, idx, lastReq, hist, failedAt>>

NextSort == SortPages

SpecSort == InitSort /\ [][NextSort]_vars

\* ------------------------------------------------------------------------
\* Properties

Range(f) == {f[x] : x \in DOMAIN f}
Ids(pgs) == {pgs[i].id : i \in 1..Len(pgs)}
AncestorIds(p) == Range(OrEmpty(Get(p, "ancestors", <<>>)))

\* The ancestor chains of a listing are consistent: every id in a chain is
\* the id of a listed page with a strictly shorter chain.
Consistent(pgs) ==
    \A i \in 1..Len(pgs) : \A a \in AncestorIds(pgs[i]) :
        \E j \in 1..Len(pgs) : pgs[j].id = a /\ depth(pgs[j]) < depth(pgs[i])

\* C1: over a fetched page set with consistent ancestor chains, when the loop
\* of run_copy starts on a page, every id of the page's ancestor chain is a
\* key of id_map.
C1_AncestorsMappedBeforeItem ==
    (pc = "item" /\ Consistent(src))
        => AncestorIds(pages[idx]) \subseteq DOMAIN id_map

\* The loop starts on a page two levels down that the source listed first.
C1_Witness ==
    /\ pc = "item"
    /\ Consistent(src)
    /\ depth(pages[idx]) = 2
    /\ src[1] = pages[idx]
    /\ AncestorIds(pages[idx]) \subseteq DOMAIN id_map

\* The pages of this run whose handling is over.
Handled == {s \in DOMAIN hist : pc = "done" \/ s # pages[idx].id}

C3_BestEffortNeverAborts ==
    pc = "failed" => failedAt \notin {"labels_get", "labels_post", "att_dl", "att_up"}

\* The run that just ended is at least the second, the one before it ran to
\* its end too, and no request of any run ended other than in a plain 200.
SecondCleanRun ==
    /\ run >= 2
    /\ pc = "done"
    /\ prevEnd = "done"
    /\ faults = 0

\* C4 as stated: with mode append-suffix, a clean second run after a first
\* run against an empty destination creates one more page per source page,
\* each titled the source title followed by " (copy)".
C4_SecondRunCreatesSuffixedCopies ==
    (mode = "append-suffix" /\ dst0 = <<>> /\ run = 2 /\ SecondCleanRun) =>
        /\ Len(dst) = Len(dstBefore) + Len(src)
        /\ \A i \in 1..Len(src) :
            /\ id_map[src[i].id] \notin Ids(dstBefore)
            /\ PageById(dst, id_map[src[i].id]).title = src[i].title \o " (copy)"

\* Every lookup of the given run's history got a 200 response.
LookupsSucceeded(h) == \A s \in DOMAIN h : h[s].lookup = 200

\* C5 read strictly: with mode skip, a second run whose lookups all succeed,
\* after a first run that ran to its end, sends no create and no update,
\* leaves the destination as it was and maps every source id as the first run
\* did.
C5_SecondRunSkipsWhateverTheFirstDid ==
    (mode = "skip" /\ run >= 2 /\ pc = "done" /\ prevEnd = "done"
        /\ LookupsSucceeded(hist)) =>
        /\ lastReq = NoPage
        /\ dst = dstBefore
        /\ id_map = prevMap

\* C5: with mode skip, after a first run that ran to its end, a second run
\* over the same source, all lookups (of both runs) succeeding, sends no
\* create and no update, leaves the destination's pages as they were and maps
\* every source id to the page the first run mapped it to.
C5_SecondRunSkipsEverything ==
    (mode = "skip" /\ run >= 2 /\ pc = "done" /\ prevEnd = "done"
        /\ LookupsSucceeded(hist) /\ LookupsSucceeded(prevHist)) =>
        /\ lastReq = NoPage
        /\ dst = dstBefore
        /\ id_map = prevMap
        /\ \A s \in DOMAIN hist : hist[s].branch = "skip"

\* A second run with mode skip ends over three pages that the first run
\* created.
C5_Witness ==
    /\ mode = "skip" /\ run = 2 /\ pc = "done" /\ prevEnd = "done"
    /\ LookupsSucceeded(hist) /\ LookupsSucceeded(prevHist)
    /\ Len(src) = 3
    /\ \E s \in DOMAIN prevHist : prevHist[s].branch = "create"
    /\ dst = dstBefore
    /\ id_map = prevMap

\* C6: with mode update, after two runs in which every request succeeded, the
\* destination holds the pages it held after the first, with the same title,
\* parent and body, none added, and the version of every page a source page
\* is mapped to is one higher.
C6_SecondUpdateRunIsIdempotent ==
    (mode = "update" /\ SecondCleanRun) =>
        /\ Len(dst) = Len(dstBefore)
        /\ \A i \in 1..Len(dst) :
            /\ dst[i].id = dstBefore[i].id
            /\ dst[i].title = dstBefore[i].title
            /\ dst[i].ancestors = dstBefore[i].ancestors
            /\ dst[i].body = dstBefore[i].body
            /\ dst[i].version = dstBefore[i].version
                   + (IF dst[i].id \in Range(id_map) THEN 1 ELSE 0)
        /\ Range(id_map) = Range(prevMap)

\* A clean second run with mode update ends, having taken a page under a
\* parent from version 1 to version 2.
C6_Witness ==
    /\ mode = "update" /\ run = 2 /\ SecondCleanRun
    /\ \E i \in 1..Len(dst) :
        /\ dst[i].ancestors # <<>>
        /\ dst[i].id \in Range(id_map)
        /\ dstBefore[i].version = 1
        /\ dst[i].version = 2
        /\ dst[i].body = dstBefore[i].body

\* C7 as stated: the update request about to be sent for the matched page
\* carries the page's current version at the destination plus one.
C7_UpdateCarriesCurrentVersionPlusOne ==
    pc = "update" =>
        UpdateBody(existing, Storage(pages[idx])).version
            = PageById(dst, existing.id).version + 1

\* The last create or update request was sent for the page at hand.
SentForCurrentPage ==
    /\ lastReq # NoPage
    /\ \/ pc \in {"labels_get", "labels_post", "att_list", "att_dl", "att_up"}
       \/ pc = "failed" /\ failedAt # "find"

\* The resolved destination parent of the page at hand.
ResolvedParent == Get(id_map, ParentSrcId(pages[idx]), None)

\* C8 as stated: every create and every update request names the resolved
\* destination parent as the page's parent (and no parent when there is none)
\* and carries the source body as it is.
C8_WritesSetParentAndBody ==
    SentForCurrentPage =>
        /\ lastReq.body.body = Storage(pages[idx])
        /\ IF ResolvedParent # None
           THEN /\ "ancestors" \in DOMAIN lastReq.body
                /\ lastReq.body.ancestors = <<ResolvedParent>>
           ELSE "ancestors" \notin DOMAIN lastReq.body

\* C8 amended: every create request names the resolved destination parent as
\* the page's parent (and no parent when there is none); an update request
\* names no parent, and the page it addresses is already directly under the
\* resolved parent; both carry the source body as it is.
C8_CreateSetsParentUpdateKeepsIt ==
    SentForCurrentPage =>
        /\ lastReq.body.body = Storage(pages[idx])
        /\ lastReq.method = "POST" =>
              IF ResolvedParent # None
              THEN /\ "ancestors" \in DOMAIN lastReq.body
                   /\ lastReq.body.ancestors = <<ResolvedParent>>
              ELSE "ancestors" \notin DOMAIN lastReq.body
        /\ lastReq.method = "PUT" =>
              /\ "ancestors" \notin DOMAIN lastReq.body
              /\ DirectParent(PageById(dst, lastReq.body.id)) = ResolvedParent

\* An update has been sent for a page under a parent, after a create for a
\* page under a parent in the run before.
C8_Witness ==
    /\ SentForCurrentPage
    /\ lastReq.method = "PUT"
    /\ ResolvedParent # None
    /\ Storage(pages[idx]) # ""
    /\ \E s \in DOMAIN prevHist :
          prevHist[s].branch = "create" /\ PageById(dst, prevMap[s]).ancestors # <<>>

\* C9: a match returned by find_dest_page_by_title has the title asked for
\* and, as its direct parent, the parent asked for: a page with the title
\* under another parent is never returned, and nothing is returned when no
\* page with the title is under that parent.
C9_MatchIsUnderRequestedParent ==
    (lookup # NoPage /\ ~IsNone(existing)) =>
        /\ existing.title = lookup.title
        /\ DirectParent(existing) = lookup.parent_id
        /\ \E i \in 1..Len(dst) :
            /\ dst[i].id = existing.id
            /\ dst[i].title = lookup.title
            /\ DirectParent(dst[i]) = lookup.parent_id

\* The lookup returned a page that comes, in the destination, after a page
\* with the same title under another parent.
C9_Witness ==
    /\ lookup # NoPage
    /\ ~IsNone(existing)
    /\ DirectParent(existing) = lookup.parent_id
    /\ \E i, j \in 1..Len(dst) :
        /\ i < j
        /\ dst[j].id = existing.id
        /\ dst[i].title = lookup.title
        /\ DirectParent(dst[i]) # lookup.parent_id

\* The lookup of the page at hand is the last one made.
LookupJustMade == pc \in {"create", "update"}

\* C10: a lookup that ends in a response other than 200 reports no match and
\* does not raise, and the page is then created with its original title,
\* whatever the mode.
C10_FailedLookupCreatesWithOriginalTitle ==
    /\ \A s \in DOMAIN hist : hist[s].lookup # 200 => hist[s].branch = "create"
    /\ (LookupJustMade /\ lookup.status # 200) =>
          /\ IsNone(existing)
          /\ pc = "create"
          /\ title = pages[idx].title
    /\ (SentForCurrentPage /\ hist[pages[idx].id].lookup # 200) =>
          /\ lastReq.method = "POST"
          /\ lastReq.body.title = pages[idx].title

\* After a lookup that got a server fault on every attempt, a page that the
\* destination holds under the same parent is about to be created again.
C10_Witness ==
    /\ pc = "create"
    /\ lookup.status = 500
    /\ IsNone(existing)
    /\ title = pages[idx].title
    /\ \E i \in 1..Len(dst) :
        /\ dst[i].title = pages[idx].title
        /\ DirectParent(dst[i]) = parent_dst_id

\* The first run ended, over a consistent source and an empty destination, and
\* every request got a plain 200.
FirstCleanRun ==
    /\ run = 1
    /\ pc = "done"
    /\ dst0 = <<>>
    /\ Consistent(src)
    /\ faults = 0

\* C11: after a first run against an empty destination, over a consistent
\* source and with every request succeeding, every source page was created,
\* each as one destination page of its own with the page's title, and every
\* page with a parent was created directly under the destination page that
\* the run mapped its source parent to (a root page under no parent).
C11_FirstRunCreatesTreeOnce ==
    FirstCleanRun =>
        /\ Len(dst) = Len(src)
        /\ DOMAIN id_map = Ids(src)
        /\ \A i \in 1..Len(src) :
            LET p == src[i]
                created == {k \in 1..Len(dst) : dst[k].id = id_map[p.id]}
            IN  /\ hist[p.id].branch = "create"
                /\ Cardinality(created) = 1
                /\ \A j \in 1..Len(src) : j # i => id_map[src[j].id] # id_map[p.id]
                /\ \A k \in created :
                    /\ dst[k].title = p.title
                    /\ DirectParent(dst[k]) =
                           IF ParentSrcId(p) # None THEN id_map[ParentSrcId(p)]
                           ELSE None

\* A clean first run has ended over a source that listed a grandchild before
\* its parent and the root; the grandchild is under the parent's copy and the
\* parent's copy under the root's.
C11_Witness ==
    /\ FirstCleanRun
    /\ Len(src) = 3
    /\ depth(src[1]) = 2
    /\ \E k \in 1..Len(dst) :
        /\ dst[k].id = id_map[src[1].id]
        /\ DirectParent(dst[k]) = id_map[ParentSrcId(src[1])]
        /\ Len(dst[k].ancestors) = 2

\* The call of _req_with_retry at hand is over.
CallOver == rqPc \in {"returned", "raised"}

\* The attempts so far, as the outcomes of a whole call (the attempts not made
\* are never looked at).
SeenPadded ==
    [k \in 1..RETRY_MAX |-> IF k <= Len(rqSeen) THEN rqSeen[k] ELSE [fault |-> TRUE]]

\* The call followed attempt by attempt ends as ReqWithRetry says, which is
\* what run_copy's requests are answered with.
StepsAgreeWithReqWithRetry ==
    CallOver =>
        LET res == ReqWithRetry(SeenPadded)
        IN  /\ res.raised = (rqPc = "raised")
            /\ res.attempts = Len(rqSeen)
            /\ res.slept = rqSlept
            /\ ~res.raised => res.r = rqResp
            /\ CallResult(res) \in RequestResults

\* C12: a call of _req_with_retry never issues more than RETRY_MAX requests,
\* whatever each attempt meets (a success, a rate limit, a server fault,
\* another status, a connection fault), and every call that is started comes
\* to its end, by a return or by an exception.
C12_CallEndsWithinRetryMax ==
    /\ [](Len(rqSeen) <= RETRY_MAX /\ rqAttempt <= RETRY_MAX)
    /\ [](rqPc = "attempt" => <>CallOver)

\* A call has ended after RETRY_MAX requests that met a connection fault, a
\* server fault and rate limits with and without a Retry-After header.
C12_Witness ==
    /\ CallOver
    /\ Len(rqSeen) = RETRY_MAX
    /\ \E i, j, k, l \in 1..RETRY_MAX :
        /\ rqSeen[i].fault
        /\ ~rqSeen[j].fault /\ rqSeen[j].status = 500
        /\ ~rqSeen[k].fault /\ rqSeen[k].status = 429
             /\ "retry_after" \in DOMAIN rqSeen[k]
        /\ ~rqSeen[l].fault /\ rqSeen[l].status = 429
             /\ "retry_after" \notin DOMAIN rqSeen[l]

\* Attempt k of the call at hand got a 5xx response.
GotServerFault(k) ==
    /\ ~rqSeen[k].fault
    /\ 500 <= rqSeen[k].status
    /\ rqSeen[k].status < 600

\* Attempt k of the call at hand was followed by another attempt, or will be.
Retried(k) ==
    \/ Len(rqSeen) > k
    \/ Len(rqSeen) = k /\ rqPc = "attempt" /\ rqAttempt = k + 1

\* C13: an attempt before the last that gets a 5xx response is followed by
\* another attempt; when the last attempt gets a 5xx response the call
\* returns that response and does not raise.
C13_ServerFaultRetriedThenReturned ==
    \A k \in 1..Len(rqSeen) :
        GotServerFault(k) =>
            IF k < RETRY_MAX
            THEN Retried(k)
            ELSE /\ rqPc = "returned"
                 /\ rqResp = rqSeen[k]
                 /\ rqOutcome # "" =>
                        rqOutcome = CallerOutcome(rqCaller, rqSeen[k].status,
                                                  ServerSearch(dst, "a", TRUE))

\* A call has returned the 5xx response of its last attempt, after 5xx
\* responses on all the attempts before.
C13_Witness ==
    /\ rqPc = "returned"
    /\ Len(rqSeen) = RETRY_MAX
    /\ \A k \in 1..RETRY_MAX : GotServerFault(k)
    /\ rqResp = rqSeen[RETRY_MAX]
    /\ Len(rqSlept) = RETRY_MAX - 1

\* C14: an attempt before the last that hits a connection-level fault is
\* followed by another attempt; when the last attempt hits one the call
\* raises, which is fatal to its caller; and a call raises only on a
\* connection-level fault of its last attempt.
C14_ConnectionFaultRetriedThenRaised ==
    /\ \A k \in 1..Len(rqSeen) :
        rqSeen[k].fault =>
            IF k < RETRY_MAX
            THEN Retried(k)
            ELSE /\ rqPc = "raised"
                 /\ rqOutcome # "" => rqOutcome = "fatal"
    /\ rqPc = "raised" =>
        /\ Len(rqSeen) = RETRY_MAX
        /\ rqSeen[RETRY_MAX].fault

\* A call has raised on the connection-level fault of its last attempt, after
\* attempts that all hit one, and its caller has let the exception through.
C14_Witness ==
    /\ rqPc = "raised"
    /\ Len(rqSeen) = RETRY_MAX
    /\ \A k \in 1..RETRY_MAX : rqSeen[k].fault
    /\ Len(rqSlept) = RETRY_MAX - 1
    /\ rqOutcome = "fatal"

\* The number of seconds a Retry-After header of the model names.
HeaderSeconds(h) == CASE h = <<"0">> -> 0 [] h = <<"1", "2">> -> 12

\* Attempt k of the call at hand got a 429 response.
GotRateLimit(k) == ~rqSeen[k].fault /\ rqSeen[k].status = 429

\* C15: the call sleeps once after every attempt that is to be retried and
\* before the next attempt is made; after a 429 response on attempt k it
\* sleeps the number of seconds the Retry-After header names when there is
\* one, and RETRY_BASE_WAIT * 2^(k-1) when there is none; after a 5xx response
\* or a connection-level fault on attempt k it sleeps RETRY_BASE_WAIT * 2^(k-1).
C15_WaitsAreHintOrBackoff ==
    /\ Len(rqSlept) <= Len(rqSeen)
    /\ rqPc = "attempt" => Len(rqSlept) = Len(rqSeen) /\ rqAttempt = Len(rqSeen) + 1
    /\ \A k \in 1..Len(rqSeen) :
        (GotRateLimit(k) \/ Retried(k)) => k <= Len(rqSlept)
    /\ \A k \in 1..Len(rqSlept) :
        /\ GotRateLimit(k) \/ GotServerFault(k) \/ rqSeen[k].fault
        /\ rqSlept[k] =
              IF GotRateLimit(k) /\ "retry_after" \in DOMAIN rqSeen[k]
              THEN HeaderSeconds(rqSeen[k].retry_after)
              ELSE RETRY_BASE_WAIT * (2 ^ (k - 1))

\* A call is over that slept 2 after a connection-level fault, 4 after a
\* server fault, 8 after a 429 without the header, 12 after a 429 with the
\* header "12" and 0 after one with the header "0".
C15_Witness ==
    /\ CallOver
    /\ Len(rqSeen) = RETRY_MAX
    /\ rqSeen[1].fault
    /\ GotServerFault(2)
    /\ GotRateLimit(3) /\ "retry_after" \notin DOMAIN rqSeen[3]
    /\ SubSeq(rqSlept, 1, 5) = <<2, 4, 8, 12, 0>>

\* Every one of the RETRY_MAX attempts of the call at hand got a 429 response.
AllRateLimited ==
    /\ Len(rqSeen) = RETRY_MAX
    /\ \A k \in 1..RETRY_MAX : GotRateLimit(k)

RateLimitedLookupMisses ==
    /\ AllRateLimited
    /\ rqCaller = "find_dest_page_by_title"
    /\ rqOutcome = "no match"
    /\ \E i \in 1..Len(dst) : dst[i].title = "a" /\ DirectParent(dst[i]) = None

\* The length of a page's ancestor chain, a missing or null field counting as
\* no ancestors.
ChainLength(p) ==
    IF "ancestors" \notin DOMAIN p THEN 0
    ELSE IF p.ancestors = Null THEN 0
    ELSE Len(p.ancestors)

\* Where the page with the given id is in a list that holds it once.
PositionOf(pgs, id) == CHOOSE k \in 1..Len(pgs) : pgs[k].id = id

\* C16: the list that sort_pages_parent_first returns holds each page of the
\* input exactly once and nothing else, the lengths of the ancestor chains
\* never decrease along it, and two pages with chains of the same length are
\* in it in the order the input had them in; a missing or null ancestors
\* field counts as a chain of length 0.
C16_SortIsStablePermutationByDepth ==
    pc = "sorted" =>
        /\ Len(pages) = Len(src)
        /\ \A i \in 1..Len(src) :
            Cardinality({k \in 1..Len(pages) : pages[k] = src[i]}) = 1
        /\ \A k, l \in 1..Len(pages) :
            k < l => ChainLength(pages[k]) <= ChainLength(pages[l])
        /\ \A i, j \in 1..Len(src) :
            (i < j /\ ChainLength(src[i]) = ChainLength(src[j]))
                => PositionOf(pages, src[i].id) < PositionOf(pages, src[j].id)

\* A list was sorted that had a page with a chain of two first, then a page
\* with a null field, a page with one ancestor and a page without the field:
\* the null one and the one without the field come first, in that order.
C16_Witness ==
    /\ pc = "sorted"
    /\ Len(src) = 4
    /\ ChainLength(src[1]) = 2
    /\ "ancestors" \in DOMAIN src[2] /\ src[2].ancestors = Null
    /\ ChainLength(src[3]) = 1
    /\ "ancestors" \notin DOMAIN src[4]
    /\ pages = << src[2], src[4], src[3], src[1] >>

\* The requests whose failure C17 is about: the listing of the source pages
\* and the two writes.
FetchOrWrite == {"fetch", "create", "update"}

\* The source pages that the loop of run_copy has not reached.
NotReached == {pages[k].id : k \in (idx + 1)..Len(pages)}

\* What the run has written so far is in the destination: every page that it
\* created or updated is there with the body of its source page.
WritesInPlace ==
    \A k \in 1..Len(pages) :
        (pages[k].id \in DOMAIN id_map /\ hist[pages[k].id].branch # "skip") =>
            \E i \in 1..Len(dst) :
                /\ dst[i].id = id_map[pages[k].id]
                /\ dst[i].body = Storage(pages[k])

\* C17: a fetch of source pages, a create or an update that does not succeed
\* ends the run there and then; the failing request changes nothing at the
\* destination and nothing that the run recorded; the pages after the one at
\* hand have not been looked up, created or updated, and never are in that
\* run (the only step that follows is the start of another run); and what was
\* created or updated before the failure is still in the destination.
C17_FatalFailureAbortsWithoutRollback ==
    [][ /\ (pc \in FetchOrWrite /\ faults' # faults) =>
              pc' = "failed" /\ failedAt' = pc
        /\ (pc \in FetchOrWrite /\ pc' = "failed") =>
              /\ failedAt' = pc
              /\ dst' = dst
              /\ id_map' = id_map
              /\ hist' = hist
              /\ idx' = idx
              /\ NotReached \cap (DOMAIN hist \cup DOMAIN id_map) = {}
              /\ WritesInPlace
        /\ pc = "failed" =>
              /\ run' = run + 1
              /\ pc' = "fetch"
              /\ dst' = dst
      ]_vars

\* A run has ended in a failed create of its third page, after it created
\* the first two, which are in the destination.
C17_Witness ==
    /\ pc = "failed"
    /\ failedAt = "create"
    /\ idx = 3
    /\ Len(dst) = Len(dstBefore) + 2
    /\ \A k \in 1..2 : hist[pages[k].id].branch = "create"
    /\ WritesInPlace
    /\ pages[3].id \notin DOMAIN id_map

\* The page at hand names a parent that id_map has no entry for.
OrphanAtHand ==
    /\ pc \in {"item", "create", "update"}
    /\ ParentSrcId(pages[idx]) # None
    /\ ParentSrcId(pages[idx]) \notin DOMAIN id_map

\* The destination page that the source page s is mapped to is at root level.
MappedAtRoot(s) == DirectParent(PageById(dst, id_map[s])) = None

\* C18 as stated: every page that named a parent missing from id_map was
\* looked up under no parent and then created, under no parent.
C18_OrphanIsAlwaysCreatedAtRoot ==
    \A s \in DOMAIN hist :
        hist[s].orphan =>
            /\ hist[s].parent = None
            /\ hist[s].branch \in {"create", "suffix"}
            /\ s \in DOMAIN id_map => MappedAtRoot(s)

\* What holds of the pages that named a parent missing from id_map: the
\* lookup was made under no parent, and the page they are mapped to is at
\* root level.
OrphansAtRoot ==
    \A s \in DOMAIN hist :
        hist[s].orphan =>
            /\ hist[s].parent = None
            /\ s \in DOMAIN id_map => MappedAtRoot(s)
            /\ hist[s].branch \in {"skip", "update", "suffix"} => hist[s].lookup = 200

\* The steps taken for such a page: the lookup is made under no parent and
\* ends the run only if its request raises; a create request names no parent
\* and, when it succeeds, adds a root-level page that the source page is
\* mapped to, the run going on; an update request names no parent and
\* addresses a root-level page.
OrphanSteps ==
    /\ (OrphanAtHand /\ pc = "item") =>
          /\ parent_dst_id' = None
          /\ pc' = "failed" => faults' # faults
          /\ pc' # "failed" => lookup'.parent_id = None
    /\ (OrphanAtHand /\ pc = "create") =>
          /\ lastReq'.method = "POST"
          /\ "ancestors" \notin DOMAIN lastReq'.body
          /\ IF faults' = faults
             THEN /\ pc' # "failed"
                  /\ Len(dst') = Len(dst) + 1
                  /\ DirectParent(Last(dst')) = None
                  /\ id_map' = Put(id_map, pages[idx].id, Last(dst').id)
             ELSE pc' = "failed" /\ dst' = dst
    /\ (OrphanAtHand /\ pc = "update") =>
          /\ lastReq'.method = "PUT"
          /\ "ancestors" \notin DOMAIN lastReq'.body
          /\ DirectParent(PageById(dst, lastReq'.body.id)) = None

\* C18 amended: a page whose immediate ancestor is not a key of id_map when
\* the loop reaches it is looked up under no parent; when no root-level page
\* with its title is found (or with mode append-suffix) it is created with no
\* parent; a root-level match is skipped or updated as the mode says, and
\* stays at root level; the missing parent never ends the run, which goes on
\* when the requests for the page succeed.
C18_OrphanFallsBackToRoot == []OrphansAtRoot /\ [][OrphanSteps]_vars

\* A first run has ended in which a page whose parent comes later in the
\* sorted list was created at root level and a page after it was created
\* under it.
C18_Witness ==
    /\ run = 1
    /\ pc = "done"
    /\ \E k \in 1..(Len(pages) - 1) :
        LET s == pages[k].id
        IN  /\ hist[s].orphan
            /\ hist[s].branch = "create"
            /\ MappedAtRoot(s)
            /\ \E l \in (k + 1)..Len(pages) :
                /\ pages[l].id = ParentSrcId(pages[k])
                /\ ParentSrcId(pages[l]) = s
                /\ DirectParent(PageById(dst, id_map[pages[l].id])) = id_map[s]

\* The attachments of a source page that have a download link, as listed.
Linked(s) == SelectSeq(SrcAttachments(s), HasDownload)

\* The upload of the k-th download of the page s is still to be sent, or was
\* cut short by an exception.
UploadOpen(s, k) ==
    /\ k = Len(hist[s].log)
    /\ s = pages[idx].id
    /\ pc = "att_up" \/ (pc = "failed" /\ failedAt = "att_up")

\* The attachments that the destination page of s has and did not have when
\* the run started.
AddedTo(s) ==
    LET id == id_map[s]
    IN  PageById(dst, id).attachments
            \ (IF id \in Ids(dstBefore) THEN PageById(dstBefore, id).attachments
               ELSE {})

\* copy_attachments has returned for the page s.
AttachmentsDone(s) == s \in Handled /\ hist[s].atts = 1

\* C19: in copy_attachments for one page, the attachments with a download
\* link are downloaded one by one in the order of the listing, whatever
\* became of the ones before; one whose download is answered with a status
\* other than 200 gets no upload and is not added to the destination page;
\* every one whose download is answered with 200 is uploaded under its own
\* filename ("attachment.bin" without a title) and, the upload accepted, is on
\* the destination page; and when copy_attachments returns, every one of them
\* has been downloaded.
C19_FailedDownloadSkipsOnlyItself ==
    \A s \in DOMAIN hist :
        LET log == hist[s].log
        IN  /\ Len(log) <= Len(Linked(s))
            /\ \A k \in 1..Len(log) :
                LET att == Linked(s)[k]
                    file == [filename |-> Filename(att), content |-> att.download]
                IN  /\ log[k].att = att
                    /\ ~log[k].downloaded =>
                          /\ log[k].sent = ""
                          /\ file \notin AddedTo(s)
                    /\ (log[k].downloaded /\ ~UploadOpen(s, k)) =>
                          /\ log[k].sent = Filename(att)
                          /\ log[k].stored =>
                                file \in PageById(dst, id_map[s]).attachments
            /\ AttachmentsDone(s) => Len(log) = Len(Linked(s))
            /\ (s = pages[idx].id /\ pc = "att_dl") =>
                  /\ Len(log) < Len(Linked(s))
                  /\ Head(attPending) = Linked(s)[Len(log) + 1]

\* copy_attachments has returned for a page with three attachments: the
\* download of the second was answered with a status other than 200, the
\* first is on the destination page under its title and the third, which has
\* none, as "attachment.bin".
C19_Witness ==
    \E s \in DOMAIN hist :
        /\ AttachmentsDone(s)
        /\ Len(hist[s].log) = 3
        /\ hist[s].log[1].stored
        /\ ~hist[s].log[2].downloaded
        /\ hist[s].log[3].stored
        /\ AddedTo(s) = { [filename |-> "f1", content |-> "/d1"],
                          [filename |-> "attachment.bin", content |-> "/d3"] }

====
